---- MODULE Spec2Model ----
(***************************************************************************)
(* A model of the two simulation engines of lbo-stack and of the harness   *)
(* that runs one of them over a list of scenarios:                         *)
(*                                                                         *)
(*   - src/src/modules/fund_waterfall.py : compute_waterfall_by_year       *)
(*   - src/src/modules/lbo_model.py      : DebtTranche, LBOModel           *)
(*   - src/src/modules/sensitivity.py    : run_sensitivity,                *)
(*                                         run_2d_sensitivity              *)
(*                                                                         *)
(* Money is a fixed-point integer counted in hundredths (100.0 is 10000).  *)
(* A rate, a fraction or a multiple is an integer number of percent        *)
(* (0.02 is 2, 1.0 is 100, 8.0x is 800), and x * rate is Pct(x, rate).     *)
(* A ratio the code compares with a threshold is compared after cross      *)
(* multiplication, so that no precision is lost in the comparison.         *)
(* npf.irr is a numeric root finder and is not computed: the model keeps   *)
(* the cash-flow vectors it is applied to.                                 *)
(***************************************************************************)
EXTENDS Integers, Sequences, FiniteSets, TLC

VARIABLES
    \* ---- fund_waterfall.compute_waterfall_by_year ----
    args,           \* the arguments of the call
    wf,             \* the locals of the call (accumulators, ledger, loop locals)
    wf_pc,          \* position inside the call
    caller,         \* the calling code: what it passed, what it got from earlier calls
    \* ---- lbo_model.LBOModel ----
    cfg,            \* the keyword arguments of LBOModel(...) and of run(...)
    model,          \* the attributes of the engine set by __init__ (or Unset)
    debt_tranches,  \* self.debt_tranches: sequence of DebtTranche records
    run,            \* the locals of LBOModel.run
    pc,             \* position of the engine: construction, run steps, outcome
    \* ---- sensitivity.run_sensitivity / run_2d_sensitivity ----
    sens            \* the harness: its scenarios, their threads and engines, its rows

wfVars  == <<args, wf, wf_pc, caller>>
lboVars == <<cfg, model, debt_tranches, run, pc, sens>>
vars    == <<args, wf, wf_pc, caller, cfg, model, debt_tranches, run, pc, sens>>

\* ------------------------------------------------------------------ bounds
\* Longest capital_calls / distributions list, and largest `years` of a run.
MaxYears == 2

\* ----------------------------------------------------------------- numbers
Min(a, b) == IF a <= b THEN a ELSE b
Max(a, b) == IF a >= b THEN a ELSE b

\* x * p for a percentage p (p = 20 is 0.20).
Pct(x, p) == (x * p) \div 100

RECURSIVE SumSeq(_)
SumSeq(s) == IF s = <<>> THEN 0 ELSE Head(s) + SumSeq(Tail(s))

\* s[:n] of Python
Prefix(s, n) == SubSeq(s, 1, Min(n, Len(s)))

\* all sequences over S of length 1..n
SeqsUpTo(S, n) == UNION {[1..k -> S] : k \in 1..n}

\* ====================================================================
\*  fund_waterfall.py
\* ====================================================================

\* default_tier of compute_waterfall_by_year
default_tier == [type |-> "irr", rate |-> 8, carry |-> 20]

\* insertion of t into a list sorted by rate, after every tier of equal rate
\* (sorted() is stable)
RECURSIVE InsertByRate(_, _)
InsertByRate(t, s) ==
    IF s = <<>> THEN <<t>>
    ELSE IF t.rate < Head(s).rate THEN <<t>> \o s
    ELSE <<Head(s)>> \o InsertByRate(t, Tail(s))

RECURSIVE SortedByRate(_)
SortedByRate(s) ==
    IF s = <<>> THEN <<>>
    ELSE InsertByRate(s[Len(s)], SortedByRate(SubSeq(s, 1, Len(s) - 1)))

\* the tiers taken in the order given, without the sort
LocalTiers_Unsorted(tiers) == IF tiers = <<>> THEN <<default_tier>> ELSE tiers

\* local_tiers = sorted((tiers or [default_tier]), key=rate)
LocalTiers(tiers) == SortedByRate(IF tiers = <<>> THEN <<default_tier>> ELSE tiers)

\* ---- the inputs the model draws from
TierPool ==
    { [type |-> "irr",    rate |-> 0,   carry |-> 0],
      [type |-> "irr",    rate |-> 8,   carry |-> 20],
      [type |-> "irr",    rate |-> 0,   carry |-> 100],
      [type |-> "simple", rate |-> 150, carry |-> 30] }

TierLists == {<<>>} \cup {<<t>> : t \in TierPool}
             \cup { <<[type |-> "simple", rate |-> 150, carry |-> 30],
                      [type |-> "irr", rate |-> 8, carry |-> 20]>>,
                    \* two tiers of equal rate
                    <<[type |-> "simple", rate |-> 150, carry |-> 30],
                      [type |-> "irr", rate |-> 150, carry |-> 20]>>,
                    \* two tiers without carry, given in descending rate order
                    <<[type |-> "irr", rate |-> 8, carry |-> 0],
                      [type |-> "irr", rate |-> 0, carry |-> 0]>> }

CallValues == {0, 10000}
DistValues == {0, 6000, 20000}

WFArgs ==
    { a \in [ committed_capital : {10000},
              capital_calls     : SeqsUpTo(CallValues, MaxYears),
              distributions     : SeqsUpTo(DistValues, MaxYears),
              tiers             : TierLists,
              gp_commitment     : {0, 2},
              mgmt_fee_pct      : {0, 2},
              mgmt_fee_basis    : {"committed", "drawn"},
              reset_hurdle      : BOOLEAN,
              cashless          : BOOLEAN,
              clawback_interest : {"simple", "none"} ] :
        /\ Len(a.capital_calls) = Len(a.distributions)
        \* the input set is kept small: the basis only matters with a fee, and
        \* reset_hurdle and clawback_interest = "none" are drawn for one
        \* setting of the fee and of the GP commitment
        /\ (a.mgmt_fee_pct = 0 => a.mgmt_fee_basis = "committed")
        /\ (a.reset_hurdle =>
               a.clawback_interest = "simple" /\ a.gp_commitment = 2
               /\ a.mgmt_fee_pct = 0)
        /\ (a.clawback_interest = "none" =>
               a.gp_commitment = 0 /\ a.mgmt_fee_pct = 0) }

\* the locals of a call whose ledger list outlives the call (a list created
\* once and appended to by every call)
WFLocals0_KeptLedger(a) ==
    [ local_tiers    |-> LocalTiers(a.tiers),
      results        |-> wf.results,
      pre_fee_cf     |-> <<>>,
      netfee_cf      |-> <<>>,
      lp_cf          |-> <<>>,
      gp_cf          |-> <<>>,
      total_drawn    |-> 0,
      lp_called      |-> 0,
      gp_called      |-> 0,
      lp_distributed |-> 0,
      gp_paid        |-> 0,
      gp_accrued     |-> 0,
      gp_entitlement |-> 0,
      year           |-> 1,
      call           |-> 0,
      dist           |-> 0,
      fee            |-> 0,
      lp_part        |-> 0,
      gp_part        |-> 0,
      net_dist       |-> 0,
      remaining      |-> 0,
      lp_share       |-> 0,
      gp_share       |-> 0,
      ti             |-> 1 ]

\* the state of the call when the loop is entered (lines 69-82)
WFLocals0(a) ==
    [ local_tiers    |-> LocalTiers(a.tiers),
      results        |-> <<>>,
      pre_fee_cf     |-> <<>>,
      netfee_cf      |-> <<>>,
      lp_cf          |-> <<>>,
      gp_cf          |-> <<>>,
      total_drawn    |-> 0,
      lp_called      |-> 0,
      gp_called      |-> 0,
      lp_distributed |-> 0,
      gp_paid        |-> 0,
      gp_accrued     |-> 0,
      gp_entitlement |-> 0,
      \* loop locals
      year           |-> 1,
      call           |-> 0,
      dist           |-> 0,
      fee            |-> 0,
      lp_part        |-> 0,
      gp_part        |-> 0,
      net_dist       |-> 0,
      remaining      |-> 0,
      lp_share       |-> 0,
      gp_share       |-> 0,
      ti             |-> 1 ]

\* number of loop iterations: zip(capital_calls, distributions)
NYears(a) == Min(Len(a.capital_calls), Len(a.distributions))

\* ---- steps 1-4: capital call, management fee, call cash flows, net dist
\* the net distribution without the floor at zero
NetDist_Unclamped(dist, fee) == dist - fee

\* net_dist = max(0.0, dist - fee)
NetDist(dist, fee) == Max(0, dist - fee)

\* fee_base * mgmt_fee_pct
MgmtFee(a, total_drawn) ==
    Pct(IF a.mgmt_fee_basis = "committed" THEN a.committed_capital ELSE total_drawn,
        a.mgmt_fee_pct)

WFCall ==
    /\ wf_pc = "call"
    /\ LET call    == args.capital_calls[wf.year]
           dist    == args.distributions[wf.year]
           drawn   == wf.total_drawn + call
           lp_part == Pct(call, 100 - args.gp_commitment)
           gp_part == Pct(call, args.gp_commitment)
           fee     == MgmtFee(args, drawn)
       IN wf' = [wf EXCEPT
                   !.call        = call,
                   !.dist        = dist,
                   !.total_drawn = drawn,
                   !.lp_part     = lp_part,
                   !.gp_part     = gp_part,
                   !.lp_called   = @ + lp_part,
                   !.gp_called   = @ + gp_part,
                   !.fee         = fee,
                   !.pre_fee_cf  = Append(@, -call),
                   !.netfee_cf   = Append(@, -call),
                   !.lp_cf       = Append(@, -lp_part - fee),
                   !.gp_cf       = Append(@, -gp_part),
                   !.net_dist    = NetDist(dist, fee)]
    /\ wf_pc' = "gate"
    /\ UNCHANGED <<args, caller, lboVars>>

\* ---- steps 5-6: paid-in capital gate
\* Makeup without the gate: nothing is returned to the LP before the tiers run
Makeup_NoGate(remaining, lp_called, lp_distributed) == 0

\* makeup = min(remaining, lp_called - lp_distributed) if lp_distributed < lp_called
Makeup(remaining, lp_called, lp_distributed) ==
    IF lp_distributed < lp_called
    THEN Min(remaining, lp_called - lp_distributed)
    ELSE 0

WFGate ==
    /\ wf_pc = "gate"
    /\ LET makeup == Makeup(wf.net_dist, wf.lp_called, wf.lp_distributed)
       IN wf' = [wf EXCEPT
                   !.lp_share   = makeup,
                   !.gp_share   = 0,
                   !.remaining  = wf.net_dist - makeup,
                   !.pre_fee_cf = Append(@, wf.dist),
                   !.ti         = 1]
    /\ wf_pc' = "tiers"
    /\ UNCHANGED <<args, caller, lboVars>>

\* ---- step 8: one iteration of `for tier in local_tiers`
\* the hurdle check of a "simple" tier: sum(distributions[:year]) / total_drawn < hr
SimpleHurdleMissed(w, a, tier) ==
    SumSeq(Prefix(a.distributions, w.year)) * 100 < tier.rate * w.total_drawn

\* a tier that hands the GP whatever remains, whatever its carry
TierAlloc_WholeRemainder(w, tier) == w.remaining

\* a tier whose allocation is read from its rate
TierAlloc_ByRate(w, tier) == Min(w.remaining, Pct(w.remaining, tier.rate))

\* alloc = min(remaining, max(0, profit * carry - (gp_accrued + gp_paid)))
TierAlloc(w, tier) ==
    LET total_dist == w.lp_distributed + w.lp_share + w.gp_paid + w.gp_accrued
                      + w.remaining
        profit     == Max(0, total_dist - (w.lp_called + w.gp_called))
        target     == Pct(profit, tier.carry)
        need       == Max(0, target - (w.gp_accrued + w.gp_paid))
    IN Min(w.remaining, need)

\* the loop is over: no tier is left
WFTiersEnd ==
    /\ wf_pc = "tiers"
    /\ wf.ti > Len(wf.local_tiers)
    /\ wf_pc' = "residual"
    /\ UNCHANGED <<args, wf, caller, lboVars>>

\* a "simple" tier divides by total_drawn: ZeroDivisionError when nothing is drawn
WFTierZeroDiv ==
    /\ wf_pc = "tiers"
    /\ wf.ti <= Len(wf.local_tiers)
    /\ wf.local_tiers[wf.ti].type = "simple"
    /\ wf.total_drawn = 0
    /\ wf_pc' = "ZeroDivisionError"
    /\ UNCHANGED <<args, wf, caller, lboVars>>

\* a "simple" tier whose hurdle is missed: break
WFTierBreak ==
    /\ wf_pc = "tiers"
    /\ wf.ti <= Len(wf.local_tiers)
    /\ wf.local_tiers[wf.ti].type = "simple"
    /\ wf.total_drawn # 0
    /\ SimpleHurdleMissed(wf, args, wf.local_tiers[wf.ti])
    /\ wf_pc' = "residual"
    /\ UNCHANGED <<args, wf, caller, lboVars>>

WFTier ==
    /\ wf_pc = "tiers"
    /\ wf.ti <= Len(wf.local_tiers)
    /\ LET tier == wf.local_tiers[wf.ti]
       IN /\ tier.type = "simple" =>
                wf.total_drawn # 0 /\ ~SimpleHurdleMissed(wf, args, tier)
          /\ LET alloc == TierAlloc(wf, tier)
             IN wf' = [wf EXCEPT
                         !.gp_share       = @ + alloc,
                         !.remaining      = @ - alloc,
                         !.gp_accrued     = @ + alloc,
                         !.gp_entitlement = @ + alloc,
                         !.netfee_cf      = IF args.reset_hurdle THEN <<>> ELSE @,
                         !.ti             = @ + 1]
    /\ wf_pc' = "tiers"
    /\ UNCHANGED <<args, caller, lboVars>>

\* ---- steps 9-12: residual to LP, distribution cash flows, the year's record
\* GPPaidOfYear with the deferral forgotten: the year's share is reported as paid
GPPaidOfYear_NotDeferred(cashless, gp_share) == gp_share

\* "GP Paid": 0.0 if cashless else gp_share
GPPaidOfYear(cashless, gp_share) == IF cashless THEN 0 ELSE gp_share

\* "MOIC": (lp_distributed / lp_called) if lp_called else 0.0, kept as a fraction
Moic(lp_distributed, lp_called) ==
    IF lp_called # 0 THEN [num |-> lp_distributed, den |-> lp_called]
    ELSE [num |-> 0, den |-> 1]

WFResidual ==
    /\ wf_pc = "residual"
    /\ LET lp_share == wf.lp_share + wf.remaining
           lp_dist  == wf.lp_distributed + lp_share
           rec == [ Year             |-> wf.year,
                    Capital_Called   |-> wf.call,
                    Mgmt_Fee         |-> wf.fee,
                    Gross_Dist       |-> wf.dist,
                    Net_Dist         |-> wf.net_dist,
                    LP_Called        |-> wf.lp_part,
                    GP_Called        |-> wf.gp_part,
                    LP_Distributed   |-> lp_share,
                    GP_Paid          |-> GPPaidOfYear(args.cashless, wf.gp_share),
                    GP_Accrued       |-> wf.gp_accrued,
                    MOIC             |-> Moic(lp_dist, wf.lp_called) ]
       IN /\ wf' = [wf EXCEPT
                      !.lp_share       = lp_share,
                      !.remaining      = 0,
                      !.lp_distributed = lp_dist,
                      !.netfee_cf      = Append(@, lp_share + wf.gp_share),
                      !.lp_cf          = Append(@, lp_share),
                      !.gp_cf          = Append(@, IF args.cashless
                                                   THEN -wf.gp_share
                                                   ELSE wf.gp_share),
                      !.gp_paid        = IF args.cashless THEN @ ELSE @ + wf.gp_share,
                      !.results        = Append(@, rec),
                      !.year           = @ + 1]
          /\ wf_pc' = IF wf.year < NYears(args) THEN "call" ELSE "final"
    /\ UNCHANGED <<args, caller, lboVars>>

\* ---- step 13: final cashless payout
SetLast(results, rec) == [results EXCEPT ![Len(results)] = rec]
Last(results) == results[Len(results)]

WFFinalPayout ==
    /\ wf_pc = "final"
    /\ IF args.cashless /\ wf.gp_accrued > 0
       THEN wf' = [wf EXCEPT
                     !.gp_cf   = Append(@, wf.gp_accrued),
                     !.gp_paid = @ + wf.gp_accrued,
                     !.results = SetLast(@,
                         [k \in DOMAIN Last(@) \cup {"GP_Final_Pay", "MOIC"} |->
                            IF k = "GP_Final_Pay" THEN wf.gp_accrued
                            ELSE IF k = "MOIC" THEN Moic(wf.lp_distributed, wf.lp_called)
                            ELSE Last(@)[k]])]
       ELSE wf' = wf
    /\ wf_pc' = "clawback"
    /\ UNCHANGED <<args, caller, lboVars>>

\* ---- step 14: clawback
\* final_ent = (sum(distributions) - total_drawn) * local_tiers[-1]["carry"]
FinalEnt(w, a) ==
    Pct(SumSeq(a.distributions) - w.total_drawn, Last(w.local_tiers).carry)

\* Excess taken to be everything the tiers ever allocated
Excess_WholeEntitlement(w, a) == w.gp_entitlement

\* Excess measured against the final entitlement alone
Excess_AgainstFinalEnt(w, a) == Max(0, w.gp_paid - FinalEnt(w, a))

\* excess = gp_paid - gp_entitlement if gp_entitlement > 0
\*          else max(0.0, gp_paid - final_ent)
Excess(w, a) ==
    IF w.gp_entitlement > 0
    THEN w.gp_paid - w.gp_entitlement
    ELSE Max(0, w.gp_paid - FinalEnt(w, a))

\* claw = excess * (1 + rate * len(results)) if clawback_interest == "simple"
Claw(w, a) ==
    IF a.clawback_interest = "simple"
    THEN Excess(w, a) + Pct(Excess(w, a), Last(w.local_tiers).rate * Len(w.results))
    ELSE Excess(w, a)

WFClawback ==
    /\ wf_pc = "clawback"
    /\ IF Excess(wf, args) > 0
       THEN LET claw == Claw(wf, args)
            IN wf' = [wf EXCEPT
                        !.gp_cf     = Append(@, -claw),
                        !.lp_cf     = Append(@, claw),
                        !.netfee_cf = Append(@, 0),
                        !.results   = SetLast(@,
                            [k \in DOMAIN Last(@)
                                   \cup {"Clawback", "GP_Net_After_Clawback", "MOIC"} |->
                               IF k = "Clawback" THEN claw
                               ELSE IF k = "GP_Net_After_Clawback" THEN wf.gp_paid - claw
                               ELSE IF k = "MOIC"
                                    THEN Moic(wf.lp_distributed, wf.lp_called)
                               ELSE Last(@)[k]])]
       ELSE wf' = wf
    /\ wf_pc' = "done"
    /\ UNCHANGED <<args, caller, lboVars>>

WFNext ==
    \/ WFCall
    \/ WFGate
    \/ WFTier
    \/ WFTierBreak
    \/ WFTierZeroDiv
    \/ WFTiersEnd
    \/ WFResidual
    \/ WFFinalPayout
    \/ WFClawback

\* ---- summarize_waterfall: the summary built from the ledger `wf` of a call
\* (the four IRR entries are npf.irr values and are left out)
summarize_waterfall(results) ==
    LET n    == Len(results)
        last == results[n]
    IN [ Cumulative_LP_Distributed |->
             SumSeq([i \in 1..n |-> results[i].LP_Distributed]),
         Cumulative_GP_Paid |->
             SumSeq([i \in 1..n |-> results[i].GP_Paid])
               + (IF "GP_Final_Pay" \in DOMAIN last THEN last.GP_Final_Pay ELSE 0),
         MOIC               |-> last.MOIC,
         Clawback_Triggered |-> "Clawback" \in DOMAIN last,
         Clawback_Amount    |-> IF "Clawback" \in DOMAIN last
                                THEN last.Clawback ELSE 0 ]

\* ---- two calls of summarize_waterfall by the same caller
\* the caller before its first call
NoCaller == [ins |-> <<>>, outs |-> <<>>]

\* the caller's tiers list after sorted() has run on it in place
TiersLeftBySorted_InPlace(tiers) == SortedByRate(tiers)

\* the caller's tiers list after `sorted(tiers or [default_tier], key=...)`:
\* sorted() builds a new list and leaves its argument as it was
TiersLeftBySorted(tiers) == tiers

\* entry of compute_waterfall_by_year (lines 69-82); `args` are the caller's
\* own list objects, passed by reference
WFEnter ==
    /\ wf_pc = "enter"
    /\ caller' = [caller EXCEPT !.ins = Append(@, args)]
    /\ wf' = WFLocals0(args)
    /\ args' = [args EXCEPT !.tiers = TiersLeftBySorted(@)]
    /\ wf_pc' = "call"
    /\ UNCHANGED lboVars

\* what the caller holds after a call: the ledger and the summary, or the
\* exception, and its argument objects as the call left them. The IRR entries
\* of the last record stand as the cash-flow vectors irr() is applied to.
Outcome(w, p, a) ==
    [ raised  |-> p = "ZeroDivisionError",
      wf      |-> IF p = "done" THEN w.results ELSE <<>>,
      irr_cfs |-> IF p = "done"
                  THEN [ Pre_Fee_IRR  |-> w.pre_fee_cf,
                         Net_Fees_IRR |-> w.netfee_cf,
                         LP_IRR       |-> w.lp_cf,
                         GP_IRR       |-> w.gp_cf ]
                  ELSE <<>>,
      summary |-> IF p = "done" THEN summarize_waterfall(w.results) ELSE <<>>,
      args    |-> a ]

\* summarize_waterfall returns (lines 258-276), or the exception leaves it
WFReturn ==
    /\ wf_pc \in {"done", "ZeroDivisionError"}
    /\ Len(caller.outs) < Len(caller.ins)
    /\ caller' = [caller EXCEPT !.outs = Append(@, Outcome(wf, wf_pc, args))]
    /\ wf_pc' = "returned"
    /\ UNCHANGED <<args, wf, lboVars>>

\* all orders of the elements of a list
Perms(s) ==
    IF s = <<>> THEN {<<>>}
    ELSE { [i \in 1..Len(s) |-> s[f[i]]] : f \in Permutations(1..Len(s)) }

\* the caller calls a second time with the same objects, its tiers list
\* reordered or not
WFCallAgain ==
    /\ wf_pc = "returned"
    /\ Len(caller.outs) = 1
    /\ \E p \in Perms(args.tiers) : args' = [args EXCEPT !.tiers = p]
    /\ wf_pc' = "enter"
    /\ UNCHANGED <<wf, caller, lboVars>>

WFTwiceNext ==
    \/ WFEnter
    \/ WFNext
    \/ WFReturn
    \/ WFCallAgain

\* ---- two calls that differ in the rates of the "irr" tiers
\* the rates the caller may give an "irr" tier in its second call
IrrRates == {0, 200}

\* the tiers lists that differ from `tiers` in the rate of "irr" tiers only
RateVariants(tiers) ==
    { ts \in [1..Len(tiers) -> [type : {"irr", "simple"},
                                rate : IrrRates \cup {tiers[i].rate : i \in 1..Len(tiers)},
                                carry : {tiers[i].carry : i \in 1..Len(tiers)}]] :
        \A i \in 1..Len(tiers) :
           /\ ts[i].type = tiers[i].type
           /\ ts[i].carry = tiers[i].carry
           /\ tiers[i].type # "irr" => ts[i].rate = tiers[i].rate }

\* the caller calls a second time, every other argument as before
WFCallAgainRates ==
    /\ wf_pc = "returned"
    /\ Len(caller.outs) = 1
    /\ \E ts \in RateVariants(args.tiers) : args' = [args EXCEPT !.tiers = ts]
    /\ wf_pc' = "enter"
    /\ UNCHANGED <<wf, caller, lboVars>>

WFRatesNext ==
    \/ WFEnter
    \/ WFNext
    \/ WFReturn
    \/ WFCallAgainRates

\* ====================================================================
\*  lbo_model.py
\* ====================================================================

\* Optional[float]: None is <<>>, a value v is <<v>>
None == <<>>
Some(v) == <<v>>

\* ---- class DebtTranche
\* DebtTranche.__init__
DebtTranche(name, balance, rate, amort, revolver, revolver_limit, pik) ==
    [ name           |-> name,
      balance        |-> balance,
      rate           |-> rate,
      amort          |-> amort,
      revolver       |-> revolver,
      revolver_limit |-> revolver_limit,
      pik            |-> pik,
      orig_balance   |-> balance,
      amort_schedule |-> <<>> ]

\* charge_interest that reports no cash cost for a PIK tranche
ChargeInterest_PikFree(t) ==
    LET interest == Pct(t.balance, t.rate)
    IN [ t        |-> IF t.pik THEN [t EXCEPT !.balance = @ + interest] ELSE t,
         interest |-> IF t.pik THEN 0 ELSE interest ]

\* DebtTranche.charge_interest: the tranche afterwards and the value returned
ChargeInterest(t) ==
    LET interest == Pct(t.balance, t.rate)
    IN [ t        |-> IF t.pik THEN [t EXCEPT !.balance = @ + interest] ELSE t,
         interest |-> interest ]

\* draw with the limit forgotten: the whole amount is drawn
Draw_Unlimited(t, amount) ==
    IF ~t.revolver
    THEN [t |-> t, drawn |-> 0]
    ELSE [t |-> [t EXCEPT !.balance = @ + amount], drawn |-> amount]

\* DebtTranche.draw: the tranche afterwards and the amount drawn
Draw(t, amount) ==
    IF ~t.revolver
    THEN [t |-> t, drawn |-> 0]
    ELSE LET available == t.revolver_limit - t.balance
             draw_amt  == Min(available, amount)
         IN [t |-> [t EXCEPT !.balance = @ + draw_amt], drawn |-> draw_amt]

\* sum(t.debt for t in self.debt_tranches)
RECURSIVE TotalDebt(_)
TotalDebt(ts) == IF ts = <<>> THEN 0 ELSE Head(ts).balance + TotalDebt(Tail(ts))

\* ---- the configurations the model draws from
\* revenue, growth, margins: the operating side of the deal
Profiles ==
    { [revenue |-> 5000,  rev_growth |-> 0,  ebitda_margin |-> 20, capex_pct |-> 0,
       wc_pct |-> 0,  tax_rate |-> 0,  da_pct |-> 0],
      [revenue |-> 5000,  rev_growth |-> 10, ebitda_margin |-> 20, capex_pct |-> 5,
       wc_pct |-> 10, tax_rate |-> 25, da_pct |-> 0],
      [revenue |-> 1000,  rev_growth |-> 0,  ebitda_margin |-> 10, capex_pct |-> 0,
       wc_pct |-> 0,  tax_rate |-> 0,  da_pct |-> 0],
      [revenue |-> 10000, rev_growth |-> 10, ebitda_margin |-> 50, capex_pct |-> 0,
       wc_pct |-> 0,  tax_rate |-> 25, da_pct |-> 10] }

\* the capital structure
Structures ==
    [ enterprise_value : {10000},
      debt_pct         : {50, 90},
      interest_rate    : {10},
      revolver_limit   : {0, 600},
      revolver_rate    : {5},
      pik_rate         : {0, 5},
      fracs            : {<<100, 0>>, <<70, 30>>, <<0, 100>>, <<70, 50>>} ]

\* covenants, exit and sweep policy, and the arguments of run()
Policies ==
    [ ltv_hurdle     : {None, Some(600)},
      icr_hurdle     : {None, Some(400)},
      exit_multiple  : {500, 800},
      cash_sweep_pct : {0, 50, 100},
      sale_cost_pct  : {0, 2},
      years          : 1..MaxYears,
      exit_year      : {None} ]

LBOConfigs ==
    { [ enterprise_value |-> s.enterprise_value,
        debt_pct         |-> s.debt_pct,
        revenue          |-> p.revenue,
        rev_growth       |-> p.rev_growth,
        ebitda_margin    |-> p.ebitda_margin,
        capex_pct        |-> p.capex_pct,
        wc_pct           |-> p.wc_pct,
        tax_rate         |-> p.tax_rate,
        exit_multiple    |-> k.exit_multiple,
        interest_rate    |-> s.interest_rate,
        revolver_limit   |-> s.revolver_limit,
        revolver_rate    |-> s.revolver_rate,
        pik_rate         |-> s.pik_rate,
        bullet_frac      |-> s.fracs[1],
        amort_frac       |-> s.fracs[2],
        ltv_hurdle       |-> k.ltv_hurdle,
        icr_hurdle       |-> k.icr_hurdle,
        da_pct           |-> p.da_pct,
        cash_sweep_pct   |-> k.cash_sweep_pct,
        sale_cost_pct    |-> k.sale_cost_pct,
        years            |-> k.years,
        exit_year        |-> k.exit_year ] :
      p \in Profiles, s \in Structures, k \in Policies }

\* configurations at and beyond the edges of the documented ranges: debt
\* fractions that sum to less than 1, a cash sweep and a sale cost above 100%,
\* a debt_pct that leaves no equity or a negative one, and an exit_year given
\* explicitly (the first year, which is before the last when years > 1)
EdgeConfigs ==
    LET base == [ enterprise_value |-> 10000, debt_pct |-> 50,
                  revenue |-> 10000, rev_growth |-> 10, ebitda_margin |-> 50,
                  capex_pct |-> 0, wc_pct |-> 0, tax_rate |-> 25,
                  exit_multiple |-> 800, interest_rate |-> 10,
                  revolver_limit |-> 0, revolver_rate |-> 5, pik_rate |-> 0,
                  bullet_frac |-> 70, amort_frac |-> 30,
                  ltv_hurdle |-> None, icr_hurdle |-> None, da_pct |-> 10,
                  cash_sweep_pct |-> 100, sale_cost_pct |-> 0,
                  years |-> 1, exit_year |-> None ]
    IN { [c EXCEPT !.years = y] :
           y \in 1..MaxYears,
           c \in { [base EXCEPT !.bullet_frac = 50],
                   [base EXCEPT !.cash_sweep_pct = 150],
                   [base EXCEPT !.sale_cost_pct = 150],
                   [base EXCEPT !.debt_pct = 100],
                   [base EXCEPT !.debt_pct = 120],
                   [base EXCEPT !.exit_year = Some(1)],
                   [base EXCEPT !.exit_year = Some(1), !.cash_sweep_pct = 50] } }

\* ---- LBOModel.__init__
Unset == [set |-> FALSE]

\* the validation with the comparison made non-strict
FracsRejected_AtOne(c) == c.bullet_frac + c.amort_frac >= 100

\* if bullet_frac + amort_frac > 1.0: raise ValueError
FracsRejected(c) == c.bullet_frac + c.amort_frac > 100

\* the attributes __init__ sets (lines 136-158)
Attributes(c) ==
    LET total_debt == Pct(c.enterprise_value, c.debt_pct)
    IN [ set              |-> TRUE,
         enterprise_value |-> c.enterprise_value,
         debt_pct         |-> c.debt_pct,
         revenue0         |-> c.revenue,
         rev_growth       |-> c.rev_growth,
         ebitda_margin    |-> c.ebitda_margin,
         capex_pct        |-> c.capex_pct,
         wc_pct           |-> c.wc_pct,
         tax_rate         |-> c.tax_rate,
         exit_multiple    |-> c.exit_multiple,
         interest_rate    |-> c.interest_rate,
         revolver_limit   |-> c.revolver_limit,
         revolver_rate    |-> c.revolver_rate,
         pik_rate         |-> c.pik_rate,
         ltv_hurdle       |-> c.ltv_hurdle,
         icr_hurdle       |-> c.icr_hurdle,
         da_pct           |-> c.da_pct,
         cash_sweep_pct   |-> c.cash_sweep_pct,
         sale_cost_pct    |-> c.sale_cost_pct,
         equity           |-> c.enterprise_value - total_debt ]

\* the tranches __init__ builds (lines 160-192)
BuildTranches(c) ==
    LET total_debt == Pct(c.enterprise_value, c.debt_pct)
        bullet_amt == Pct(total_debt, c.bullet_frac)
        amort_amt  == Pct(total_debt, c.amort_frac)
    IN <<DebtTranche("Bullet", bullet_amt,
                     IF c.pik_rate > 0 THEN c.pik_rate ELSE c.interest_rate,
                     FALSE, FALSE, 0, c.pik_rate > 0),
         DebtTranche("Amortizing", amort_amt, c.interest_rate, TRUE, FALSE, 0, FALSE)>>
       \o (IF c.revolver_limit > 0
           THEN <<DebtTranche("Revolver", 0, c.revolver_rate, FALSE, TRUE,
                              c.revolver_limit, FALSE)>>
           ELSE <<>>)

NoRun == [year |-> 0]

Construct ==
    /\ pc = "new"
    /\ IF FracsRejected(cfg)
       THEN /\ pc' = "ValueError"
            /\ UNCHANGED <<model, debt_tranches>>
       ELSE /\ model' = Attributes(cfg)
            /\ debt_tranches' = BuildTranches(cfg)
            /\ pc' = "ready"
    /\ UNCHANGED <<cfg, run, wfVars, sens>>

\* ---- LBOModel.run
\* exit_year = exit_year or years
ExitYear(c) == IF c.exit_year = None THEN c.years ELSE c.exit_year[1]

\* the locals of run() before the loop (lines 201-206)
RunLocals0(m, c) ==
    [ results        |-> <<>>,        \* results["Year k"] is results[k]
      exit_summary   |-> None,        \* results["Exit Summary"]
      returned       |-> FALSE,       \* run() has returned `results`
      error          |-> None,        \* the exception that left run(), with its year
      irr_cf         |-> <<-m.equity>>,
      revenue        |-> m.revenue0,
      wc_prev        |-> Pct(m.revenue0, m.wc_pct),
      year           |-> 1,
      ebitda         |-> 0,
      total_interest |-> 0,
      tax            |-> 0,
      nopat          |-> 0,
      da             |-> 0,
      capex          |-> 0,
      wc_delta       |-> 0,
      lcf            |-> 0,
      remaining_cash |-> 0,
      ti             |-> 1,           \* index of `for t in self.debt_tranches`
      due            |-> 0,
      pay            |-> 0,
      short          |-> 0,
      drawn          |-> 0,
      total_sweep    |-> 0,
      sweep_left     |-> 0 ]

\* a run() that starts from the tranches as __init__ built them
TranchesAtRunStart_Reset(ts) ==
    [i \in 1..Len(ts) |->
        [ts[i] EXCEPT !.balance = ts[i].orig_balance, !.amort_schedule = <<>>]]

\* run() reads self.debt_tranches as they are: nothing in lines 201-215
\* assigns a balance or a schedule before the first year
TranchesAtRunStart(ts) == ts

RunStart ==
    /\ pc = "ready"
    /\ run' = RunLocals0(model, cfg)
    /\ debt_tranches' = TranchesAtRunStart(debt_tranches)
    /\ pc' = "interest"
    /\ UNCHANGED <<cfg, model, wfVars, sens>>

\* steps 1-2: revenue, EBITDA, interest charged on every tranche
RECURSIVE ChargeAll(_)
ChargeAll(ts) ==
    IF ts = <<>> THEN [ts |-> <<>>, total |-> 0]
    ELSE LET h == ChargeInterest(Head(ts))
             r == ChargeAll(Tail(ts))
         IN [ts |-> <<h.t>> \o r.ts, total |-> h.interest + r.total]

YearInterest ==
    /\ pc = "interest"
    /\ LET revenue == IF run.year > 1
                      THEN run.revenue + Pct(run.revenue, model.rev_growth)
                      ELSE run.revenue
           charged == ChargeAll(debt_tranches)
       IN /\ run' = [run EXCEPT
                       !.revenue        = revenue,
                       !.ebitda         = Pct(revenue, model.ebitda_margin),
                       !.total_interest = charged.total]
          /\ debt_tranches' = charged.ts
    /\ pc' = "covenants"
    /\ UNCHANGED <<cfg, model, wfVars, sens>>

\* step 3: covenants
\* the ICR test with the comparison turned round
IcrBreached_Reversed(m, ebitda, total_interest) ==
    /\ m.icr_hurdle # None
    /\ m.icr_hurdle[1] # 0
    /\ total_interest > 0
    /\ ebitda * 100 > m.icr_hurdle[1] * total_interest

\* if self.icr_hurdle and total_interest > 0: icr = ebitda / total_interest;
\* if icr < self.icr_hurdle: raise
IcrBreached(m, ebitda, total_interest) ==
    /\ m.icr_hurdle # None
    /\ m.icr_hurdle[1] # 0
    /\ total_interest > 0
    /\ ebitda * 100 < m.icr_hurdle[1] * total_interest

\* if self.ltv_hurdle is not None: if total_debt > ebitda * exit_multiple: raise
LtvBreached(m, ebitda, total_debt) ==
    /\ m.ltv_hurdle # None
    /\ total_debt * 100 > ebitda * m.exit_multiple

Covenants ==
    /\ pc = "covenants"
    /\ IF IcrBreached(model, run.ebitda, run.total_interest)
       THEN /\ run' = [run EXCEPT
                         !.error = Some([type |-> "CovenantBreachError",
                                         kind |-> "ICR", year |-> run.year])]
            /\ pc' = "raised"
       ELSE IF LtvBreached(model, run.ebitda, TotalDebt(debt_tranches))
       THEN /\ run' = [run EXCEPT
                         !.error = Some([type |-> "CovenantBreachError",
                                         kind |-> "LTV", year |-> run.year])]
            /\ pc' = "raised"
       ELSE /\ pc' = "cashflow"
            /\ UNCHANGED run
    /\ UNCHANGED <<cfg, model, debt_tranches, wfVars, sens>>

\* steps 4-5: tax, levered cash flow, default amortization schedules
\* t.amort_schedule = [t.orig_balance / years] * years
DefaultSchedule(t, years) == [i \in 1..years |-> t.orig_balance \div years]

WithSchedules(ts, years) ==
    [i \in 1..Len(ts) |->
        IF ts[i].amort /\ ts[i].amort_schedule = <<>>
        THEN [ts[i] EXCEPT !.amort_schedule = DefaultSchedule(ts[i], years)]
        ELSE ts[i]]

CashFlow ==
    /\ pc = "cashflow"
    /\ LET ebt      == run.ebitda - run.total_interest
           tax      == Max(0, Pct(ebt, model.tax_rate))
           nopat    == ebt - tax
           da       == Pct(run.ebitda, model.da_pct)
           wc_curr  == Pct(run.revenue, model.wc_pct)
           wc_delta == wc_curr - run.wc_prev
           capex    == Pct(run.revenue, model.capex_pct)
           lcf      == nopat + da - capex - wc_delta
       IN run' = [run EXCEPT
                    !.tax            = tax,
                    !.nopat          = nopat,
                    !.da             = da,
                    !.wc_delta       = wc_delta,
                    !.wc_prev        = wc_curr,
                    !.capex          = capex,
                    !.lcf            = lcf,
                    !.remaining_cash = lcf,
                    !.ti             = 1]
    /\ debt_tranches' = WithSchedules(debt_tranches, cfg.years)
    /\ pc' = "amort"
    /\ UNCHANGED <<cfg, model, wfVars, sens>>

\* step 6: one iteration of the scheduled-amortization loop
\* next((x for x in self.debt_tranches if x.revolver), None): its index, or 0
RECURSIVE FirstRevolverFrom(_, _)
FirstRevolverFrom(ts, i) ==
    IF i > Len(ts) THEN 0
    ELSE IF ts[i].revolver THEN i
    ELSE FirstRevolverFrom(ts, i + 1)

FirstRevolver(ts) == FirstRevolverFrom(ts, 1)

\* if t.amort and (year - 1) < len(t.amort_schedule)
AmortDue(t, year) == t.amort /\ (year - 1) < Len(t.amort_schedule)

\* if short > 1e-8: the tolerance is below one unit of the fixed-point money
IsShort(short) == short > 0

AmortStep ==
    /\ pc = "amort"
    /\ run.ti <= Len(debt_tranches)
    /\ LET t == debt_tranches[run.ti]
       IN IF ~AmortDue(t, run.year)
          THEN /\ run' = [run EXCEPT !.ti = @ + 1]
               /\ pc' = "amort"
               /\ UNCHANGED debt_tranches
          ELSE LET due   == t.amort_schedule[run.year]
                   pay   == Min(run.remaining_cash, due)
                   paid  == [debt_tranches EXCEPT ![run.ti].balance = @ - pay]
                   short == due - pay
                   ri    == FirstRevolver(paid)
                   d     == IF IsShort(short) /\ ri # 0
                            THEN Draw(paid[ri], short)
                            ELSE [t |-> None, drawn |-> 0]
                   left  == short - d.drawn
               IN /\ debt_tranches' = IF IsShort(short) /\ ri # 0
                                      THEN [paid EXCEPT ![ri] = d.t]
                                      ELSE paid
                  /\ IF IsShort(short) /\ IsShort(left)
                     THEN /\ run' = [run EXCEPT
                                       !.due = due, !.pay = pay, !.short = left,
                                       !.drawn = d.drawn,
                                       !.remaining_cash = @ - pay,
                                       !.error = Some([type |-> "InsolvencyError",
                                                       kind |-> t.name,
                                                       year |-> run.year])]
                          /\ pc' = "raised"
                     ELSE /\ run' = [run EXCEPT
                                       !.due = due, !.pay = pay, !.short = left,
                                       !.drawn = d.drawn,
                                       !.remaining_cash = @ - pay,
                                       !.ti = @ + 1]
                          /\ pc' = "amort"
    /\ UNCHANGED <<cfg, model, wfVars, sens>>

\* step 7: cash sweep. total_sweep = lcf * self.cash_sweep_pct
SweepStart ==
    /\ pc = "amort"
    /\ run.ti > Len(debt_tranches)
    /\ LET total_sweep == Pct(run.lcf, model.cash_sweep_pct)
       IN run' = [run EXCEPT
                    !.total_sweep = total_sweep,
                    !.sweep_left  = total_sweep,
                    !.ti          = 1]
    /\ pc' = "sweep_revolver"
    /\ UNCHANGED <<cfg, model, debt_tranches, wfVars, sens>>

\* the sweep with the cap at the balance forgotten
SweepPay_Uncapped(sweep_left, t) == sweep_left

\* pay = min(sweep_left, t.balance)
SweepPay(sweep_left, t) == Min(sweep_left, t.balance)

\* one iteration of the revolver pay-down loop
SweepRevolver ==
    /\ pc = "sweep_revolver"
    /\ IF run.ti > Len(debt_tranches)
       THEN /\ run' = [run EXCEPT !.ti = 1]
            /\ pc' = "sweep_other"
            /\ UNCHANGED debt_tranches
       ELSE LET t == debt_tranches[run.ti]
            IN IF ~t.revolver
               THEN /\ run' = [run EXCEPT !.ti = @ + 1]
                    /\ pc' = "sweep_revolver"
                    /\ UNCHANGED debt_tranches
               ELSE LET pay == SweepPay(run.sweep_left, t)
                    IN /\ debt_tranches' =
                              [debt_tranches EXCEPT ![run.ti].balance = @ - pay]
                       /\ IF run.sweep_left - pay <= 0
                          THEN /\ run' = [run EXCEPT !.pay = pay,
                                                     !.sweep_left = @ - pay,
                                                     !.ti = 1]
                               /\ pc' = "sweep_other"
                          ELSE /\ run' = [run EXCEPT !.pay = pay,
                                                     !.sweep_left = @ - pay,
                                                     !.ti = @ + 1]
                               /\ pc' = "sweep_revolver"
    /\ UNCHANGED <<cfg, model, wfVars, sens>>

\* the second sweep loop with the PIK exclusion forgotten
Sweepable_PikToo(t) == ~t.revolver

\* if not t.revolver and not t.pik
Sweepable(t) == ~t.revolver /\ ~t.pik

\* one iteration of the loop over the non-revolver, non-PIK tranches
SweepOther ==
    /\ pc = "sweep_other"
    /\ IF run.ti > Len(debt_tranches)
       THEN /\ pc' = "record"
            /\ UNCHANGED <<run, debt_tranches>>
       ELSE LET t == debt_tranches[run.ti]
            IN IF ~Sweepable(t)
               THEN /\ run' = [run EXCEPT !.ti = @ + 1]
                    /\ pc' = "sweep_other"
                    /\ UNCHANGED debt_tranches
               ELSE LET pay == SweepPay(run.sweep_left, t)
                    IN /\ debt_tranches' =
                              [debt_tranches EXCEPT ![run.ti].balance = @ - pay]
                       /\ run' = [run EXCEPT !.pay = pay,
                                             !.sweep_left = @ - pay,
                                             !.ti = @ + 1]
                       /\ pc' = IF run.sweep_left - pay <= 0
                                THEN "record" ELSE "sweep_other"
    /\ UNCHANGED <<cfg, model, wfVars, sens>>

\* step 8: the year's record; then the next year, or the exit
\* the loop bound off by one: range(1, years + 2)
LoopDone_OneMore(year, years) == year >= years + 1

\* for year in range(1, years + 1): this was the last iteration
LoopDone(year, years) == year >= years

Record ==
    /\ pc = "record"
    /\ LET cash_paid      == run.total_sweep - run.sweep_left
           remaining_cash == run.lcf - cash_paid
           rec == [ Year       |-> run.year,
                    Revenue    |-> run.revenue,
                    EBITDA     |-> run.ebitda,
                    Interest   |-> run.total_interest,
                    Tax        |-> run.tax,
                    NOPAT      |-> run.nopat,
                    DA         |-> run.da,
                    CapEx      |-> run.capex,
                    dWC        |-> run.wc_delta,
                    Levered_CF |-> run.lcf,
                    Equity_CF  |-> remaining_cash,
                    Total_Debt |-> TotalDebt(debt_tranches) ]
       IN /\ run' = [run EXCEPT
                       !.remaining_cash = remaining_cash,
                       !.results        = Append(@, rec),
                       !.irr_cf         = Append(@, remaining_cash),
                       !.year           = IF LoopDone(run.year, cfg.years)
                                          THEN @ ELSE @ + 1]
          /\ pc' = IF LoopDone(run.year, cfg.years) THEN "exit" ELSE "interest"
    /\ UNCHANGED <<cfg, model, debt_tranches, wfVars, sens>>

\* steps 9-10: exit valuation, MOIC, the returned dict
Exit ==
    /\ pc = "exit"
    /\ LET exit_year      == ExitYear(cfg)
           tv_ebitda      == run.results[exit_year].EBITDA
           terminal_value == Pct(Pct(tv_ebitda, model.exit_multiple),
                                 100 - model.sale_cost_pct)
           net_debt       == TotalDebt(debt_tranches)
           equity_value   == terminal_value - net_debt
           moic_final     == IF model.equity > 0
                             THEN [num |-> equity_value, den |-> model.equity]
                             ELSE [num |-> 0, den |-> 1]
       IN run' = [run EXCEPT
                    !.irr_cf       = Append(@, equity_value),
                    !.exit_summary = Some([ Exit_Year    |-> exit_year,
                                            Equity_Value |-> equity_value,
                                            MOIC         |-> moic_final ]),
                    !.returned     = TRUE]
    /\ pc' = "done"
    /\ UNCHANGED <<cfg, model, debt_tranches, wfVars, sens>>

LBONext ==
    \/ Construct
    \/ RunStart
    \/ YearInterest
    \/ Covenants
    \/ CashFlow
    \/ AmortStep
    \/ SweepStart
    \/ SweepRevolver
    \/ SweepOther
    \/ Record
    \/ Exit

\* ---- a caller that uses the engine a second time
\* the first run is over (returned or raised): the caller keeps what it left
\* and calls run() again on the same instance, with any number of years
RunAgain ==
    /\ pc \in {"done", "raised"}
    /\ caller.outs = <<>>
    /\ \E y \in 1..MaxYears :
          cfg' = [cfg EXCEPT !.years = y, !.exit_year = None]
    /\ caller' = [caller EXCEPT
                    !.outs = <<[ fresh         |-> FALSE,
                                 pc            |-> pc,
                                 years         |-> cfg.years,
                                 run           |-> run,
                                 debt_tranches |-> debt_tranches ]>>]
    /\ pc' = "ready"
    /\ UNCHANGED <<model, debt_tranches, run, args, wf, wf_pc, sens>>

\* the caller constructs a new instance from the same config and runs that
ConstructAgain ==
    /\ pc \in {"done", "raised"}
    /\ caller.outs = <<>>
    /\ caller' = [caller EXCEPT
                    !.outs = <<[ fresh         |-> TRUE,
                                 pc            |-> pc,
                                 years         |-> cfg.years,
                                 run           |-> run,
                                 debt_tranches |-> debt_tranches ]>>]
    /\ model' = Unset
    /\ debt_tranches' = <<>>
    /\ run' = NoRun
    /\ pc' = "new"
    /\ UNCHANGED <<cfg, args, wf, wf_pc, sens>>

LBOTwiceNext ==
    \/ LBONext
    \/ RunAgain
    \/ ConstructAgain

\* ====================================================================
\*  sensitivity.py
\* ====================================================================

\* no harness: the engine is used on its own
NoSens == [phase |-> "idle"]

\* the `base` dicts the model draws from
SensBases ==
    { [ enterprise_value |-> 10000, debt_pct |-> 50,
        revenue |-> 10000, rev_growth |-> 10, ebitda_margin |-> 50,
        capex_pct |-> 0, wc_pct |-> 0, tax_rate |-> 25,
        exit_multiple |-> 800, interest_rate |-> 10,
        revolver_limit |-> 0, revolver_rate |-> 5, pik_rate |-> 0,
        bullet_frac |-> 70, amort_frac |-> 30,
        ltv_hurdle |-> None, icr_hurdle |-> None, da_pct |-> 10,
        cash_sweep_pct |-> 100, sale_cost_pct |-> 0 ],
      [ enterprise_value |-> 10000, debt_pct |-> 50,
        revenue |-> 5000, rev_growth |-> 0, ebitda_margin |-> 20,
        capex_pct |-> 0, wc_pct |-> 0, tax_rate |-> 0,
        exit_multiple |-> 800, interest_rate |-> 10,
        revolver_limit |-> 600, revolver_rate |-> 5, pik_rate |-> 5,
        bullet_frac |-> 70, amort_frac |-> 30,
        ltv_hurdle |-> None, icr_hurdle |-> Some(400), da_pct |-> 0,
        cash_sweep_pct |-> 50, sale_cost_pct |-> 0 ] }

\* the calls of the harness the model draws from. `many` says whether the
\* list of scenarios is longer than 5000, of which the model follows the first
\* two; threads is the `threads` argument.
SensInputs ==
    [ fn      : {"run_sensitivity"},
      base    : SensBases,
      param1  : {"debt_pct", "bullet_frac"},
      values1 : {<<50, 90>>, <<90, 50>>, <<90, 90>>},
      param2  : {""},
      values2 : {<<>>},
      years   : {1, 2},
      threads : {1, 2},
      many    : BOOLEAN ]
    \cup
    [ fn      : {"run_2d_sensitivity"},
      base    : SensBases,
      param1  : {"debt_pct"},
      values1 : {<<50, 90>>},
      param2  : {"cash_sweep_pct"},
      values2 : {<<0>>, <<100>>},
      years   : {1, 2},
      threads : {1, 2},
      many    : BOOLEAN ]

\* the overrides of each scenario, in the order the harness maps over them:
\* `values`, or itertools.product(values1, values2)
Scenarios(inp) ==
    IF inp.fn = "run_sensitivity"
    THEN [i \in 1..Len(inp.values1) |-> (inp.param1 :> inp.values1[i])]
    ELSE [k \in 1..(Len(inp.values1) * Len(inp.values2)) |->
            LET i == ((k - 1) \div Len(inp.values2)) + 1
                j == ((k - 1) % Len(inp.values2)) + 1
            IN (inp.param2 :> inp.values2[j]) @@ (inp.param1 :> inp.values1[i])]

\* cfg = base.copy(); cfg[param] = v   /   cfg = {**base, param1: v1, param2: v2}
\* together with the arguments of model.run(years)
ScenarioCfg(inp, sc) ==
    [k \in DOMAIN inp.base \cup {"years", "exit_year"} |->
        IF k = "years" THEN inp.years
        ELSE IF k = "exit_year" THEN None
        ELSE IF k \in DOMAIN sc THEN sc[k]
        ELSE inp.base[k]]

\* if threads > 1 and len(values) > 5000
UseThreads(threads, many) == threads > 1 /\ many

\* one engine object constructed once and used by every scenario
EngineFor_Shared(i) == 1

\* model = LBOModel(**cfg): scenario i constructs an engine object of its own
EngineFor(i) == i

\* the frame of a thread that is not running, and an engine not yet built
IdleFrame == [cfg |-> [years |-> 0], run |-> NoRun, pc |-> "idle"]
NoEngine == [model |-> Unset, debt_tranches |-> <<>>]

\* the row a scenario returns (lines 77-86, 152-153); IRR stands as the cash
\* flows npf.irr was applied to in run()
Row(inp, sc, r) ==
    IF inp.fn = "run_sensitivity"
    THEN [ Param |-> inp.param1,
           Value |-> sc[inp.param1],
           IRR   |-> r.irr_cf,
           MOIC  |-> r.exit_summary[1].MOIC ]
    ELSE [ over |-> sc,
           IRR  |-> r.irr_cf,
           MOIC |-> r.exit_summary[1].MOIC ]

\* the harness with the running thread's frame and engine written back
Saved(s) ==
    IF s.cur = 0 THEN s
    ELSE [s EXCEPT
            !.tasks[s.cur].frame = [cfg |-> cfg, run |-> run, pc |-> pc],
            !.engines[s.tasks[s.cur].eng] =
                [model |-> model, debt_tranches |-> debt_tranches]]

\* a call of the harness begins: the scenarios are laid out, none has started
SensCall ==
    /\ sens.phase = "start"
    /\ LET scs     == Scenarios(sens.inp)
           threads == IF sens.call = 1 THEN 1 ELSE sens.inp.threads
       IN sens' = [sens EXCEPT
                     !.phase    = "running",
                     !.threads  = threads,
                     !.threaded = UseThreads(threads, sens.inp.many),
                     !.tasks    = [i \in 1..Len(scs) |->
                                     [ sc    |-> scs[i],
                                       st    |-> "queued",
                                       eng   |-> 0,
                                       frame |-> IdleFrame,
                                       out   |-> None ]],
                     !.engines  = [e \in 1..Len(scs) |-> NoEngine],
                     !.order    = <<>>,
                     !.cur      = 0]
    /\ UNCHANGED <<cfg, model, debt_tranches, run, pc, wfVars>>

\* the tasks that are running
Running(s) == {j \in 1..Len(s.tasks) : s.tasks[j].st = "running"}

\* a finished task that raised
RaisedTask(t) == t.st = "finished" /\ t.out[1].raised

\* the next scenario starts: in the list comprehension once the one before has
\* returned, in the pool as soon as a worker thread is free
SensStartTask ==
    /\ sens.phase = "running"
    /\ \E i \in 1..Len(sens.tasks) :
          /\ sens.tasks[i].st = "queued"
          /\ \A j \in 1..(i - 1) : sens.tasks[j].st # "queued"
          /\ IF sens.threaded
             THEN Cardinality(Running(sens)) < sens.threads
             ELSE \A j \in 1..(i - 1) :
                     sens.tasks[j].st = "finished" /\ ~RaisedTask(sens.tasks[j])
          /\ LET s == Saved(sens)
                 e == EngineFor(i)
             IN /\ sens' = [s EXCEPT !.tasks[i].st  = "running",
                                     !.tasks[i].eng = e,
                                     !.cur          = i]
                /\ cfg' = ScenarioCfg(sens.inp, sens.tasks[i].sc)
                /\ run' = NoRun
                /\ pc' = "new"
                /\ model' = s.engines[e].model
                /\ debt_tranches' = s.engines[e].debt_tranches
    /\ UNCHANGED wfVars

\* the interpreter switches to another running thread
SensSwitch ==
    /\ sens.phase = "running"
    /\ sens.threaded
    /\ \E i \in Running(sens) :
          /\ i # sens.cur
          /\ LET s == Saved(sens)
                 e == s.tasks[i].eng
             IN /\ sens' = [s EXCEPT !.cur = i]
                /\ cfg' = s.tasks[i].frame.cfg
                /\ run' = s.tasks[i].frame.run
                /\ pc' = s.tasks[i].frame.pc
                /\ model' = s.engines[e].model
                /\ debt_tranches' = s.engines[e].debt_tranches
    /\ UNCHANGED wfVars

\* _run_one / _one returns its row, or the exception of the engine leaves it
SensFinish ==
    /\ sens.phase = "running"
    /\ sens.cur # 0
    /\ pc \in {"done", "raised", "ValueError"}
    /\ LET i   == sens.cur
           out == IF pc = "done"
                  THEN [ raised |-> FALSE,
                         error  |-> None,
                         row    |-> Some(Row(sens.inp, sens.tasks[i].sc, run)) ]
                  ELSE [ raised |-> TRUE,
                         error  |-> IF pc = "ValueError"
                                    THEN Some([type |-> "ValueError",
                                               kind |-> "", year |-> 0])
                                    ELSE run.error,
                         row    |-> None ]
       IN sens' = [Saved(sens) EXCEPT
                     !.tasks[i].st    = "finished",
                     !.tasks[i].out   = Some(out),
                     !.tasks[i].frame = IdleFrame,
                     !.order          = Append(@, i),
                     !.cur            = 0]
    /\ cfg' = [years |-> 0]
    /\ run' = NoRun
    /\ pc' = "idle"
    /\ model' = Unset
    /\ debt_tranches' = <<>>
    /\ UNCHANGED wfVars

\* what the harness hands back: the rows in input order, or the exception of
\* the first scenario, in input order, that raised
SensResult(tasks) ==
    LET bad == {i \in 1..Len(tasks) : RaisedTask(tasks[i])}
    IN IF bad # {}
       THEN [ raised |-> TRUE,
              error  |-> tasks[CHOOSE i \in bad : \A j \in bad : i <= j].out[1].error,
              rows   |-> <<>> ]
       ELSE [ raised |-> FALSE,
              error  |-> None,
              rows   |-> [i \in 1..Len(tasks) |-> tasks[i].out[1].row[1]] ]

\* results = [...] / list(exe.map(...)) is complete, or an exception ends it;
\* the caller then repeats the call with its own `threads`
SensCollect ==
    /\ sens.phase = "running"
    /\ sens.cur = 0
    /\ IF sens.threaded
       THEN \A i \in 1..Len(sens.tasks) : sens.tasks[i].st = "finished"
       ELSE \/ \A i \in 1..Len(sens.tasks) : sens.tasks[i].st = "finished"
            \/ \E i \in 1..Len(sens.tasks) : RaisedTask(sens.tasks[i])
    /\ sens' = [sens EXCEPT
                  !.returned = Append(@, SensResult(sens.tasks)),
                  !.call     = IF @ = 1 THEN 2 ELSE @,
                  !.phase    = IF sens.call = 1 THEN "start" ELSE "end"]
    /\ UNCHANGED <<cfg, model, debt_tranches, run, pc, wfVars>>

SensNext ==
    \/ SensCall
    \/ SensStartTask
    \/ SensSwitch
    \/ SensFinish
    \/ SensCollect
    \/ LBONext

\* ====================================================================
\*  specifications
\* ====================================================================

\* one call of compute_waterfall_by_year, for every input of WFArgs
InitWF ==
    /\ args \in WFArgs
    /\ wf = WFLocals0(args)
    /\ wf_pc = "call"
    /\ caller = NoCaller
    /\ sens = NoSens
    /\ cfg = [years |-> 0]
    /\ model = Unset
    /\ debt_tranches = <<>>
    /\ run = NoRun
    /\ pc = "idle"

SpecWF == InitWF /\ [][WFNext]_vars

\* a caller that calls summarize_waterfall twice, for every input of WFArgs
InitWFTwice ==
    /\ args \in WFArgs
    /\ wf = [results |-> <<>>]
    /\ wf_pc = "enter"
    /\ caller = NoCaller
    /\ sens = NoSens
    /\ cfg = [years |-> 0]
    /\ model = Unset
    /\ debt_tranches = <<>>
    /\ run = NoRun
    /\ pc = "idle"

SpecWFTwice == InitWFTwice /\ [][WFTwiceNext]_vars

\* one engine: LBOModel(**cfg) followed by one run(years), for every cfg
InitLBO ==
    /\ cfg \in LBOConfigs \cup EdgeConfigs
    /\ model = Unset
    /\ debt_tranches = <<>>
    /\ run = NoRun
    /\ pc = "new"
    /\ args = [cashless |-> FALSE]
    /\ wf = [results |-> <<>>]
    /\ wf_pc = "idle"
    /\ caller = NoCaller
    /\ sens = NoSens

SpecLBO == InitLBO /\ [][LBONext]_vars

\* run() has no suspension point: a step that can be taken is taken
FairSpecLBO == InitLBO /\ [][LBONext]_vars /\ WF_vars(LBONext)

\* a caller that calls the waterfall twice, the second time with other rates
\* on the "irr" tiers
InitWFRates ==
    /\ args \in WFArgs
    /\ wf = [results |-> <<>>]
    /\ wf_pc = "enter"
    /\ caller = NoCaller
    /\ sens = NoSens
    /\ cfg = [years |-> 0]
    /\ model = Unset
    /\ debt_tranches = <<>>
    /\ run = NoRun
    /\ pc = "idle"

SpecWFRates == InitWFRates /\ [][WFRatesNext]_vars

\* the engine with a caller that uses it twice
InitLBOTwice ==
    /\ cfg \in LBOConfigs \cup EdgeConfigs
    /\ model = Unset
    /\ debt_tranches = <<>>
    /\ run = NoRun
    /\ pc = "new"
    /\ args = [cashless |-> FALSE]
    /\ wf = [results |-> <<>>]
    /\ wf_pc = "idle"
    /\ caller = NoCaller
    /\ sens = NoSens

SpecLBOTwice == InitLBOTwice /\ [][LBOTwiceNext]_vars

\* the caller runs the harness twice on the same input: with threads = 1,
\* then with its own `threads`
InitSens ==
    /\ sens \in { [ phase    |-> "start",
                    inp      |-> inp,
                    call     |-> 1,
                    threads  |-> 1,
                    threaded |-> FALSE,
                    tasks    |-> <<>>,
                    engines  |-> <<>>,
                    order    |-> <<>>,
                    cur      |-> 0,
                    returned |-> <<>> ] : inp \in SensInputs }
    /\ cfg = [years |-> 0]
    /\ model = Unset
    /\ debt_tranches = <<>>
    /\ run = NoRun
    /\ pc = "idle"
    /\ args = [cashless |-> FALSE]
    /\ wf = [results |-> <<>>]
    /\ wf_pc = "idle"
    /\ caller = NoCaller

SpecSens == InitSens /\ [][SensNext]_vars

\* ====================================================================
\*  claims about compute_waterfall_by_year (checked under SpecWF)
\* ====================================================================

\* record helpers
HasKey(rec, k) == k \in DOMAIN rec
FinalPayOf(rec) == IF HasKey(rec, "GP_Final_Pay") THEN rec.GP_Final_Pay ELSE 0

\* the GP allocation of year i, read from the ledger: the growth of "GP Accrued"
YearAlloc(results, i) ==
    results[i].GP_Accrued - (IF i > 1 THEN results[i - 1].GP_Accrued ELSE 0)

RECURSIVE SumField(_, _, _)
\* sum of field k over the first n records
SumField(results, k, n) ==
    IF n = 0 THEN 0 ELSE results[n][k] + SumField(results, k, n - 1)

\* C1 (as claimed): in every returned year record, cashless or not,
\* LP Distributed + GP Paid (+ GP Final Pay on the last record) = Net Dist.
C1_Conservation_AsClaimed ==
    wf_pc = "done" =>
        \A i \in 1..Len(wf.results) :
            LET r == wf.results[i]
            IN r.LP_Distributed + r.GP_Paid + FinalPayOf(r) = r.Net_Dist

\* C1 (amended): in every year record LP Distributed + GP Paid = Net Dist when
\* cashless is False; when cashless is True, LP Distributed + GP Paid + the
\* year's deferred GP allocation (the growth of GP Accrued) = Net Dist.
C1_Conservation ==
    \A i \in 1..Len(wf.results) :
        LET r == wf.results[i]
        IN r.LP_Distributed + r.GP_Paid
             + (IF args.cashless THEN YearAlloc(wf.results, i) ELSE 0) = r.Net_Dist

\* a cashless call has returned two records, the first with a deferred allocation
C1_Witness ==
    /\ wf_pc = "done"
    /\ args.cashless
    /\ Len(wf.results) = 2
    /\ YearAlloc(wf.results, 1) > 0
    /\ HasKey(wf.results[2], "GP_Final_Pay")

\* C8 (as claimed): after the final year, whenever cumulative GP paid (with a
\* cashless final payout) exceeds (sum of distributions - total drawn) x the
\* carry of the highest-rate tier, the last record carries a Clawback entry.
C8_ClawbackTrigger_AsClaimed ==
    wf_pc = "done" =>
        LET n         == Len(wf.results)
            gp_total  == SumField(wf.results, "GP_Paid", n) + FinalPayOf(wf.results[n])
            final_ent == Pct(SumSeq(args.distributions) - SumSeq(args.capital_calls),
                             wf.local_tiers[Len(wf.local_tiers)].carry)
        IN gp_total > final_ent => HasKey(wf.results[n], "Clawback")

\* C9: the gate comes first, and the tiers allocate nothing to the GP in a year
\* in which the LP is still short of its called capital after the gate.
\* (a) right after the gate, lp_share is min(Net Dist, gap) and the rest remains;
\* (b) while the tiers run, an LP still below its calls means no GP share and
\*     nothing left to allocate;
\* (c) in the ledger, a year whose Net Dist is below the gap gives the whole
\*     Net Dist to the LP, pays the GP nothing and accrues nothing.
C9_ReturnOfCapitalGate ==
    /\ (wf_pc = "tiers" /\ wf.ti = 1) =>
          /\ wf.lp_share = Min(wf.net_dist, Max(0, wf.lp_called - wf.lp_distributed))
          /\ wf.remaining = wf.net_dist - wf.lp_share
    /\ (wf_pc \in {"tiers", "residual"}
          /\ wf.lp_distributed + wf.lp_share < wf.lp_called) =>
          /\ wf.gp_share = 0
          /\ wf.remaining = 0
          /\ wf.lp_share = wf.net_dist
    /\ \A i \in 1..Len(wf.results) :
          LET r   == wf.results[i]
              gap == SumField(wf.results, "LP_Called", i)
                       - SumField(wf.results, "LP_Distributed", i - 1)
          IN r.Net_Dist < gap =>
                /\ r.LP_Distributed = r.Net_Dist
                /\ r.GP_Paid = 0
                /\ YearAlloc(wf.results, i) = 0

\* a year with a positive Net Dist that leaves the LP short, under a tier with carry
C9_Witness ==
    /\ wf_pc = "residual"
    /\ wf.net_dist > 0
    /\ wf.lp_distributed + wf.lp_share < wf.lp_called
    /\ \E i \in 1..Len(wf.local_tiers) : wf.local_tiers[i].carry > 0

\* C10: with cashless=True every record has GP Paid = 0 and GP Accrued equal to
\* the sum of the yearly GP allocations so far (what the LP did not receive of
\* each Net Dist); once the call has returned, if the accrued total is > 0 the
\* last record, and no other, has GP Final Pay = that total, and no Clawback.
C10_CashlessDeferral ==
    args.cashless =>
        /\ \A i \in 1..Len(wf.results) :
              LET r == wf.results[i]
              IN /\ r.GP_Paid = 0
                 /\ r.GP_Accrued = SumField(wf.results, "Net_Dist", i)
                                     - SumField(wf.results, "LP_Distributed", i)
                 /\ HasKey(r, "GP_Final_Pay") =>
                        i = Len(wf.results) /\ wf_pc \in {"clawback", "done"}
        /\ wf_pc = "done" =>
              LET n == Len(wf.results)
                  r == wf.results[n]
              IN IF r.GP_Accrued > 0
                 THEN /\ HasKey(r, "GP_Final_Pay")
                      /\ r.GP_Final_Pay = r.GP_Accrued
                      /\ r.GP_Final_Pay = -SumSeq([j \in 1..n |-> wf.gp_cf[2 * j]])
                      /\ ~HasKey(r, "Clawback")
                 ELSE ~HasKey(r, "GP_Final_Pay")

\* a cashless call has returned; GP allocations of two years were released at once
C10_Witness ==
    /\ wf_pc = "done"
    /\ args.cashless
    /\ Len(wf.results) = 2
    /\ YearAlloc(wf.results, 1) > 0
    /\ YearAlloc(wf.results, 2) > 0
    /\ wf.results[2].GP_Final_Pay = wf.results[2].GP_Accrued

\* every tier of the call has carry 0
AllCarryZero(a) ==
    a.tiers # <<>> /\ \A i \in 1..Len(a.tiers) : a.tiers[i].carry = 0

\* C15: no-carry waterfall. When every tier has carry 0, every year record
\* has LP Distributed = Net Dist and GP Paid = 0 (and nothing accrued), no
\* record has a Clawback or a GP Final Pay, LP Called = call x (1 -
\* gp_commitment), and MOIC = cumulative LP Distributed / cumulative LP Called
\* whenever the LP has been called at all.
C15_NoCarry ==
    AllCarryZero(args) =>
        \A i \in 1..Len(wf.results) :
            LET r      == wf.results[i]
                dist   == SumField(wf.results, "LP_Distributed", i)
                called == SumField(wf.results, "LP_Called", i)
            IN /\ r.LP_Distributed = r.Net_Dist
               /\ r.GP_Paid = 0
               /\ r.GP_Accrued = 0
               /\ ~HasKey(r, "Clawback")
               /\ ~HasKey(r, "GP_Final_Pay")
               /\ r.LP_Called = Pct(r.Capital_Called, 100 - args.gp_commitment)
               /\ called # 0 => r.MOIC.num * called = dist * r.MOIC.den

\* the no-carry example: one call of 100 with gp_commitment 0.02 and no fee, a
\* distribution above the call, MOIC = distribution / 98
C15_Witness ==
    /\ wf_pc = "done"
    /\ AllCarryZero(args)
    /\ args.capital_calls = <<10000>>
    /\ args.gp_commitment = 2
    /\ args.mgmt_fee_pct = 0
    /\ wf.results[1].LP_Distributed = 20000
    /\ wf.results[1].MOIC = [num |-> 20000, den |-> 9800]

\* C17: a Clawback entry appears only on the last record, and only if the
\* cumulative GP paid (with the final payout) exceeds final_profit x the carry
\* of the final tier, final_profit = sum of distributions - capital drawn;
\* summarize_waterfall reports Clawback Triggered exactly for such a ledger.
C17_ClawbackOnlyIfOverpaid ==
    /\ \A i \in 1..Len(wf.results) :
          HasKey(wf.results[i], "Clawback") =>
              i = Len(wf.results) /\ wf_pc = "done"
    /\ wf_pc = "done" =>
          LET sm           == summarize_waterfall(wf.results)
              final_profit == SumSeq(args.distributions) - SumSeq(args.capital_calls)
              carry        == wf.local_tiers[Len(wf.local_tiers)].carry
          IN /\ sm.Clawback_Triggered = HasKey(Last(wf.results), "Clawback")
             /\ sm.Clawback_Triggered =>
                   /\ sm.Cumulative_GP_Paid * 100 > final_profit * carry
                   /\ sm.Clawback_Amount > 0

\* a fund that lost money under a tier with carry: the call has returned with
\* a Clawback entry on its last record
C17_Witness ==
    /\ wf_pc = "done"
    /\ HasKey(Last(wf.results), "Clawback")
    /\ SumSeq(args.distributions) < SumSeq(args.capital_calls)

\* C24 (as claimed): tiered catch-up. In every year, cashless or not, a tier
\* allocates to the GP min(remaining, max(0, profit x carry - GP allocation
\* accumulated so far)), where profit = everything distributed so far to LP
\* and GP, each allocation counted once, less the capital called so far;
\* remaining decreases by the allocation.
C24_TieredCatchUp_AsClaimed ==
    [][ (wf_pc = "tiers" /\ wf'.ti = wf.ti + 1) =>
          LET tier        == wf.local_tiers[wf.ti]
              gp_so_far   == wf.gp_entitlement
              distributed == wf.lp_distributed + wf.lp_share + gp_so_far
                             + wf.remaining
              profit      == distributed - (wf.lp_called + wf.gp_called)
              alloc       == Min(wf.remaining,
                                 Max(0, Pct(profit, tier.carry) - gp_so_far))
          IN /\ wf'.gp_share = wf.gp_share + alloc
             /\ wf'.remaining = wf.remaining - alloc
      ]_vars

\* C27 (as claimed): when a clawback is triggered the final adjustment changes
\* the last record only: the records of earlier years are as they were, the LP
\* and GP cash flows receive +clawback and -clawback, and the MOIC of the last
\* record is revised to count the clawback credited to the LP.
C27_ClawbackAdjustsLastRecord_AsClaimed ==
    [][ (wf_pc = "clawback" /\ Excess(wf, args) > 0) =>
          LET n    == Len(wf.results)
              claw == wf'.results[n].Clawback
          IN /\ Len(wf'.results) = n
             /\ \A i \in 1..(n - 1) : wf'.results[i] = wf.results[i]
             /\ wf'.lp_cf = Append(wf.lp_cf, claw)
             /\ wf'.gp_cf = Append(wf.gp_cf, -claw)
             /\ wf'.results[n].MOIC = Moic(wf.lp_distributed + claw, wf.lp_called)
      ]_vars

\* C30: over a whole run, cashless or not, every yearly LP Distributed, GP Paid
\* and GP allocation is >= 0, and once the final payout is made the sum of LP
\* Distributed plus the sum of GP Paid plus GP Final Pay (if present) equals
\* the sum of Net Dist, before any clawback and after it.
C30_RunConservation ==
    /\ \A i \in 1..Len(wf.results) :
          /\ wf.results[i].LP_Distributed >= 0
          /\ wf.results[i].GP_Paid >= 0
          /\ YearAlloc(wf.results, i) >= 0
    /\ wf_pc \in {"clawback", "done"} =>
          LET sm == summarize_waterfall(wf.results)
          IN sm.Cumulative_LP_Distributed + sm.Cumulative_GP_Paid
               = SumField(wf.results, "Net_Dist", Len(wf.results))
    /\ (wf_pc \in {"call", "final"} /\ ~args.cashless) =>
          SumField(wf.results, "LP_Distributed", Len(wf.results))
            + SumField(wf.results, "GP_Paid", Len(wf.results))
               = SumField(wf.results, "Net_Dist", Len(wf.results))

\* a cashless run of two years with a management fee has made its final
\* payout: the GP was allocated carry in both years and paid nothing before
C30_Witness ==
    /\ wf_pc = "clawback"
    /\ args.cashless
    /\ args.mgmt_fee_pct > 0
    /\ Len(wf.results) = 2
    /\ YearAlloc(wf.results, 1) > 0
    /\ YearAlloc(wf.results, 2) > 0
    /\ FinalPayOf(Last(wf.results)) = wf.results[2].GP_Accrued
    /\ C30_RunConservation

\* ====================================================================
\*  claims about repeated calls (checked under SpecWFTwice)
\* ====================================================================

Ascending(ts) ==
    \A i, j \in 1..Len(ts) : i < j => ts[i].rate <= ts[j].rate

DistinctRates(ts) ==
    \A i, j \in 1..Len(ts) : i # j => ts[i].rate # ts[j].rate

\* two calls gave the caller the same thing: the same ledger and summary, or
\* the same exception
SameOutput(o1, o2) ==
    /\ o1.raised = o2.raised
    /\ o1.wf = o2.wf
    /\ o1.irr_cfs = o2.irr_cfs
    /\ o1.summary = o2.summary

\* C11 (as claimed): the tiers are processed in ascending rate order, the
\* records returned for any two orders of the same tiers list are identical,
\* and the caller's tiers list is not reordered.
C11_TierOrdering_AsClaimed ==
    /\ "local_tiers" \in DOMAIN wf => Ascending(wf.local_tiers)
    /\ Len(caller.outs) = 2 => SameOutput(caller.outs[1], caller.outs[2])
    /\ \A k \in 1..Len(caller.outs) :
          caller.outs[k].args.tiers = caller.ins[k].tiers

\* C11 (amended): the tiers are processed in ascending rate order, as a
\* reordering of the list passed; for a tiers list whose rates are pairwise
\* distinct the records returned are identical for every order of the list;
\* the caller's tiers list is not reordered.
C11_TierOrdering ==
    /\ "local_tiers" \in DOMAIN wf =>
          /\ Ascending(wf.local_tiers)
          /\ wf.local_tiers
               \in Perms(LET passed == caller.ins[Len(caller.ins)].tiers
                         IN IF passed = <<>> THEN <<default_tier>> ELSE passed)
    /\ (Len(caller.outs) = 2 /\ DistinctRates(caller.ins[1].tiers)) =>
          SameOutput(caller.outs[1], caller.outs[2])
    /\ \A k \in 1..Len(caller.outs) :
          caller.outs[k].args.tiers = caller.ins[k].tiers

\* two calls with the two orders of a list of two tiers of different rates
\* have returned; the GP was allocated carry
C11_Witness ==
    /\ Len(caller.outs) = 2
    /\ Len(caller.ins[1].tiers) = 2
    /\ DistinctRates(caller.ins[1].tiers)
    /\ caller.ins[2].tiers # caller.ins[1].tiers
    /\ ~caller.outs[1].raised
    /\ caller.outs[2].summary = caller.outs[1].summary
    /\ caller.outs[2].wf[1].GP_Accrued > 0

\* C16: summarize_waterfall and compute_waterfall_by_year are pure: two calls
\* with identical arguments return identical outputs (the same ledger and the
\* same summary, or the same exception), and every call leaves the caller's
\* capital_calls, distributions and tiers as they were passed.
C16_Purity ==
    /\ (Len(caller.outs) = 2 /\ caller.ins[2] = caller.ins[1]) =>
          SameOutput(caller.outs[1], caller.outs[2])
    /\ \A k \in 1..Len(caller.outs) : caller.outs[k].args = caller.ins[k]

\* two calls with identical arguments have returned a two-year ledger with
\* carry paid to the GP
C16_Witness ==
    /\ Len(caller.outs) = 2
    /\ caller.ins[2] = caller.ins[1]
    /\ ~caller.outs[2].raised
    /\ Len(caller.outs[2].wf) = 2
    /\ caller.outs[2].summary.Cumulative_GP_Paid > 0
    /\ caller.outs[2].summary = caller.outs[1].summary

\* ---- claims about calls with other "irr" rates (checked under SpecWFRates)

\* the yearly allocation columns of a ledger
Allocation(results) ==
    [i \in 1..Len(results) |->
        [ LP_Distributed |-> results[i].LP_Distributed,
          GP_Paid        |-> results[i].GP_Paid,
          GP_Accrued     |-> results[i].GP_Accrued ]]

\* two calls allocated alike: the same columns in every year, or both raised
SameAllocation(o1, o2) ==
    /\ o1.raised = o2.raised
    /\ ~o1.raised => Allocation(o1.wf) = Allocation(o2.wf)

\* the types and carries of the tiers in the order they are processed
ProcessingOrder(tiers) ==
    LET lt == LocalTiers(tiers)
    IN [i \in 1..Len(lt) |-> [type |-> lt[i].type, carry |-> lt[i].carry]]

\* C29 (as claimed): two calls that differ only in the rates of "irr" tiers
\* return the same LP Distributed, GP Paid and GP Accrued in every year.
C29_IrrRateIrrelevant_AsClaimed ==
    Len(caller.outs) = 2 => SameAllocation(caller.outs[1], caller.outs[2])

\* C29 (amended): two calls that differ only in the rates of "irr" tiers, and
\* whose tiers are processed in the same order of types and carries, return
\* the same LP Distributed, GP Paid and GP Accrued in every year.
C29_IrrRateIrrelevant ==
    (Len(caller.outs) = 2
       /\ ProcessingOrder(caller.ins[2].tiers) = ProcessingOrder(caller.ins[1].tiers))
    => SameAllocation(caller.outs[1], caller.outs[2])

\* two calls whose "irr" tier has different rates have returned two-year
\* ledgers in which the GP was allocated carry
C29_Witness ==
    /\ Len(caller.outs) = 2
    /\ caller.ins[2].tiers # caller.ins[1].tiers
    /\ ProcessingOrder(caller.ins[2].tiers) = ProcessingOrder(caller.ins[1].tiers)
    /\ ~caller.outs[2].raised
    /\ Len(caller.outs[2].wf) = 2
    /\ caller.outs[2].wf[1].GP_Accrued > 0
    /\ Allocation(caller.outs[2].wf) = Allocation(caller.outs[1].wf)

\* ====================================================================
\*  claims about LBOModel.run (checked under SpecLBO / FairSpecLBO)
\* ====================================================================

Raised(type) == pc = "raised" /\ run.error # None /\ run.error[1].type = type
RaisedKind(kind) == pc = "raised" /\ run.error # None /\ run.error[1].kind = kind

\* x / y < h for a multiple h given in percent; false when y = 0
RatioBelow(x, y, h) ==
    IF y > 0 THEN x * 100 < h * y
    ELSE IF y < 0 THEN x * 100 > h * y
    ELSE FALSE

\* x / y > h for a multiple h given in percent; false when y = 0
RatioAbove(x, y, h) ==
    IF y > 0 THEN x * 100 > h * y
    ELSE IF y < 0 THEN x * 100 < h * y
    ELSE FALSE

\* C2 (as claimed): in every state of a run the balance of every tranche is >= 0.
C2_BalancesNonNegative_AsClaimed ==
    \A i \in 1..Len(debt_tranches) : debt_tranches[i].balance >= 0

\* C3 (as claimed): in every state of a run the balance of the revolver is at
\* most its revolver_limit.
C3_RevolverWithinLimit_AsClaimed ==
    \A i \in 1..Len(debt_tranches) :
        debt_tranches[i].revolver =>
            debt_tranches[i].balance <= debt_tranches[i].revolver_limit

\* C4: mandatory debt service. In a step of the amortization loop on a tranche
\* that is due this year: the tranche is paid min(remaining cash, due) out of
\* the cash; a shortfall is drawn from the revolver, up to its headroom, if
\* there is a revolver; InsolvencyError is raised in this year exactly when a
\* shortfall exists and there is no revolver or its headroom is below it.
C4_MandatoryDebtService ==
    [][ (pc = "amort" /\ run.ti <= Len(debt_tranches)
           /\ debt_tranches[run.ti].amort
           /\ run.year <= Len(debt_tranches[run.ti].amort_schedule)) =>
        LET t        == debt_tranches[run.ti]
            due      == t.amort_schedule[run.year]
            pay      == Min(run.remaining_cash, due)
            short    == due - pay
            revs     == {i \in 1..Len(debt_tranches) : debt_tranches[i].revolver}
            ri       == IF revs = {} THEN 0
                        ELSE CHOOSE i \in revs : \A j \in revs : i <= j
            headroom == IF ri = 0 THEN 0
                        ELSE debt_tranches[ri].revolver_limit
                               - debt_tranches[ri].balance
        IN /\ debt_tranches'[run.ti].balance = t.balance - pay
           /\ run'.remaining_cash = run.remaining_cash - pay
           /\ (short > 0 /\ ri # 0) =>
                 debt_tranches'[ri].balance
                    = debt_tranches[ri].balance + Min(headroom, short)
           /\ (short <= 0 /\ ri # 0) => debt_tranches'[ri] = debt_tranches[ri]
           /\ (pc' = "raised") <=> (short > 0 /\ (ri = 0 \/ headroom < short))
           /\ (pc' = "raised") =>
                 /\ run'.error # None
                 /\ run'.error[1].type = "InsolvencyError"
                 /\ run'.error[1].year = run.year
                 /\ run'.error[1].kind = t.name
    ]_vars

\* InsolvencyError was raised although a revolver was drawn: its headroom was
\* smaller than the shortfall
C4_Witness ==
    /\ Raised("InsolvencyError")
    /\ run.drawn > 0
    /\ run.short > 0

\* C5: ICR covenant. In the covenant step of a year, if icr_hurdle is set and
\* EBITDA / total_interest < icr_hurdle, CovenantBreachError is raised in that
\* year, with no cash flow, debt service, sweep or record of that year; it is
\* not raised for ICR when the ratio is >= icr_hurdle. total_interest is the
\* sum of balance x rate over all tranches at the start of the year.
C5_IcrCovenant ==
    [][ /\ pc = "interest" =>
             run'.total_interest
               = SumSeq([i \in 1..Len(debt_tranches) |->
                           Pct(debt_tranches[i].balance, debt_tranches[i].rate)])
        /\ pc = "covenants" =>
             LET below == /\ cfg.icr_hurdle # None
                          /\ RatioBelow(run.ebitda, run.total_interest,
                                        cfg.icr_hurdle[1])
             IN /\ below =>
                     /\ pc' = "raised"
                     /\ run'.error = Some([type |-> "CovenantBreachError",
                                           kind |-> "ICR", year |-> run.year])
                     /\ Len(run'.results) = run.year - 1
                     /\ run'.irr_cf = run.irr_cf
                     /\ run'.lcf = run.lcf
                     /\ debt_tranches' = debt_tranches
                /\ ~below => ~(pc' = "raised" /\ run'.error[1].kind = "ICR")
    ]_vars

\* the ICR covenant was breached in the second year, after a first year that passed
C5_Witness ==
    /\ RaisedKind("ICR")
    /\ run.year = 2
    /\ Len(run.results) = 1

\* C6 (as claimed): with a leverage hurdle set, a leverage breach is raised in
\* a year if and only if total debt / EBITDA exceeds the hurdle value.
C6_LeverageCovenant_AsClaimed ==
    /\ (pc = "cashflow" /\ cfg.ltv_hurdle # None) =>
          ~RatioAbove(TotalDebt(debt_tranches), run.ebitda, cfg.ltv_hurdle[1])
    /\ RaisedKind("LTV") =>
          RatioAbove(TotalDebt(debt_tranches), run.ebitda, cfg.ltv_hurdle[1])

\* C7: a run(years = N) ends after at most N year steps, in one of two ways:
\* it returns the records of years 1..N, appended in increasing year order,
\* and the Exit Summary; or an error leaves run() in the first failing year,
\* with no later year simulated and nothing returned.
C7_Done ==
    pc = "done" =>
        /\ run.returned
        /\ run.error = None
        /\ run.exit_summary # None
        /\ Len(run.results) = cfg.years
        /\ \A i \in 1..Len(run.results) : run.results[i].Year = i

C7_Raised ==
    pc = "raised" =>
        /\ ~run.returned
        /\ run.exit_summary = None
        /\ run.error # None
        /\ run.error[1].type \in {"CovenantBreachError", "InsolvencyError"}
        /\ run.error[1].year = run.year
        /\ Len(run.results) = run.year - 1

C7_InRun ==
    pc \notin {"new", "ready", "ValueError"} =>
        /\ run.year \in 1..cfg.years
        /\ Len(run.results) <= cfg.years

C7_RunOutcome ==
    /\ [](C7_Done /\ C7_Raised /\ C7_InRun)
    /\ [][ /\ pc \in {"done", "raised"} => UNCHANGED vars
           /\ run.year # 0 =>
                /\ run'.year \in {run.year, run.year + 1}
                /\ (run'.year = run.year + 1) =>
                      run'.results
                        = Append(run.results, run'.results[Len(run'.results)])
                /\ (run'.results # run.results) =>
                      /\ Len(run'.results) = Len(run.results) + 1
                      /\ run'.results[Len(run'.results)].Year = run.year
                      /\ run'.results[Len(run'.results)].Total_Debt
                           = TotalDebt(debt_tranches) ]_vars
    /\ (pc = "ready") ~> (pc \in {"done", "raised"})

\* a run of two years has returned both records and the exit summary
C7_Witness ==
    /\ pc = "done"
    /\ cfg.years = 2
    /\ Len(run.results) = 2
    /\ run.exit_summary # None

\* the engine has been constructed and run() has been entered
InRunOrAfter == pc \notin {"new", "ready", "ValueError", "idle"}

\* the whole debt is one PIK bullet, nothing else draws on the cash flow
PikOnly(c) ==
    /\ c.bullet_frac = 100 /\ c.amort_frac = 0
    /\ c.pik_rate > 0 /\ c.revolver_limit = 0
    /\ c.capex_pct = 0 /\ c.wc_pct = 0 /\ c.tax_rate = 0
    /\ c.cash_sweep_pct = 100

\* total debt at the start of year i, read from the ledger
DebtBefore(i) ==
    IF i = 1 THEN Pct(cfg.enterprise_value, cfg.debt_pct)
    ELSE run.results[i - 1].Total_Debt

C13_ChargeInterest_AsClaimed ==
    pc = "covenants" =>
        run.total_interest
          = SumSeq([i \in 1..Len(debt_tranches) |->
                      IF debt_tranches[i].pik THEN 0
                      ELSE Pct(debt_tranches[i].balance, debt_tranches[i].rate)])

\* C13 (amended): charge_interest computes interest = balance x rate and
\* returns it for every tranche; it adds the interest to the balance of a PIK
\* tranche and leaves the balance of a non-PIK tranche unchanged.
C13_ChargeInterest ==
    [][ pc = "interest" =>
          /\ Len(debt_tranches') = Len(debt_tranches)
          /\ \A i \in 1..Len(debt_tranches) :
                LET t == debt_tranches[i]
                IN /\ debt_tranches'[i].balance
                        = IF t.pik THEN t.balance + Pct(t.balance, t.rate)
                          ELSE t.balance
                   /\ [debt_tranches'[i] EXCEPT !.balance = t.balance] = t
          /\ run'.total_interest
               = SumSeq([i \in 1..Len(debt_tranches) |->
                           Pct(debt_tranches[i].balance, debt_tranches[i].rate)])
      ]_vars

\* interest has been charged on a PIK bullet and on a cash-pay amortizing tranche
C13_Witness ==
    /\ pc = "covenants"
    /\ debt_tranches[1].pik
    /\ debt_tranches[1].balance > debt_tranches[1].orig_balance
    /\ debt_tranches[2].balance > 0
    /\ run.total_interest
         > Pct(debt_tranches[2].balance, debt_tranches[2].rate)

\* C14 (as claimed): for every constructed engine, equity = enterprise_value -
\* total_debt with total_debt = enterprise_value x debt_pct, and the initial
\* tranche balances add up to total_debt.
C14_CapitalStructure_AsClaimed ==
    pc = "ready" =>
        /\ model.equity
             = cfg.enterprise_value - Pct(cfg.enterprise_value, cfg.debt_pct)
        /\ TotalDebt(debt_tranches) = Pct(cfg.enterprise_value, cfg.debt_pct)

\* C18: bullet_frac + amort_frac > 1.0 ends the construction with ValueError
\* before any attribute or tranche is set and before any step of a run; a
\* config with bullet_frac + amort_frac <= 1.0 is not rejected.
C18_FracsValidation ==
    /\ pc = "ValueError" =>
          /\ cfg.bullet_frac + cfg.amort_frac > 100
          /\ model = Unset
          /\ debt_tranches = <<>>
          /\ run = NoRun
    /\ (pc \notin {"new", "ValueError", "idle"}) =>
          /\ cfg.bullet_frac + cfg.amort_frac <= 100
          /\ model.set
          /\ Len(debt_tranches) >= 2

\* a construction with fractions 0.7 + 0.5 has failed
C18_Witness ==
    /\ pc = "ValueError"
    /\ cfg.bullet_frac = 70
    /\ cfg.amort_frac = 50
    /\ model = Unset

\* C19 (as claimed): run() is never entered with cash_sweep_pct or
\* sale_cost_pct outside [0,1] or with non-positive initial equity: such a
\* config has failed at construction.
C19_ConfigErrorsAtConstruction_AsClaimed ==
    InRunOrAfter =>
        /\ cfg.cash_sweep_pct \in 0..100
        /\ cfg.sale_cost_pct \in 0..100
        /\ cfg.enterprise_value - Pct(cfg.enterprise_value, cfg.debt_pct) > 0

\* the engine is in one of the two sweep loops of a year
InSweep == pc \in {"sweep_revolver", "sweep_other"}

\* the tranches whose balance the step changes
Touched == {i \in 1..Len(debt_tranches) :
              debt_tranches'[i].balance # debt_tranches[i].balance}

\* C21: cash sweep order. A step of the sweep pays one tranche at most; in the
\* first loop it is the revolver, in the second a non-revolver, non-PIK
\* tranche, and then only when the revolver and every sweepable tranche
\* declared before it have balance 0. The payment is at most the balance of
\* the tranche, PIK tranches are never paid, and the total paid in the year
\* never exceeds the amount allotted to the sweep.
C21_SweepOrder ==
    [][ InSweep =>
          /\ Cardinality(Touched) <= 1
          /\ Len(debt_tranches') = Len(debt_tranches)
          /\ \A i \in Touched :
                LET t   == debt_tranches[i]
                    pay == t.balance - debt_tranches'[i].balance
                IN /\ i = run.ti
                   /\ ~t.pik
                   /\ pay <= t.balance
                   /\ pay <= run.sweep_left
                   /\ pay = run.sweep_left - run'.sweep_left
                   /\ pc = "sweep_revolver" => t.revolver
                   /\ pc = "sweep_other" =>
                        /\ ~t.revolver
                        /\ \A j \in 1..Len(debt_tranches) :
                              debt_tranches[j].revolver =>
                                  debt_tranches[j].balance = 0
                        /\ \A j \in 1..(i - 1) :
                              (~debt_tranches[j].revolver /\ ~debt_tranches[j].pik)
                                  => debt_tranches[j].balance = 0
          /\ run'.total_sweep = run.total_sweep
          /\ Touched = {} => run'.sweep_left = run.sweep_left
          /\ pc' = "record" =>
                run.total_sweep - run'.sweep_left <= run.total_sweep
      ]_vars

\* in the first year the revolver was drawn for the amortization, the sweep
\* repaid it in full and went on to pay a term tranche
C21_Witness ==
    /\ pc = "record"
    /\ run.year = 1
    /\ run.drawn > 0
    /\ \E i \in 1..Len(debt_tranches) :
          debt_tranches[i].revolver /\ debt_tranches[i].balance = 0
    /\ run.total_sweep - run.sweep_left > run.drawn

\* C22 (as claimed): the amount allotted to the sweep of a year is the cash
\* remaining after the year's scheduled amortization times cash_sweep_pct.
C22_SweepAllotment_AsClaimed ==
    InSweep => run.total_sweep = Pct(run.remaining_cash, cfg.cash_sweep_pct)

\* C23 (as claimed): the Equity CF recorded for a year, which is also the entry
\* appended to the IRR cash flows, is Levered CF - amortization paid from cash
\* - sweep paid.
C23_EquityCF_AsClaimed ==
    [][ pc = "record" =>
          LET amort_paid == run.lcf - run.remaining_cash
              sweep_paid == run.total_sweep - run.sweep_left
              rec        == run'.results[Len(run'.results)]
          IN /\ rec.Equity_CF = rec.Levered_CF - amort_paid - sweep_paid
             /\ run'.irr_cf = Append(run.irr_cf, rec.Equity_CF)
      ]_vars

\* C25 (as claimed): when the amortization due on a tranche is met without
\* InsolvencyError with the help of a revolver draw, the step lowers the
\* balance of the amortizing tranche by the full due, raises the balance of
\* the revolver by the amount drawn, and total debt falls by the cash part
\* only: the draw itself leaves total debt unchanged.
C25_DrawFundsAmortization_AsClaimed ==
    [][ (pc = "amort" /\ pc' = "amort" /\ run'.ti = run.ti + 1
           /\ run.ti <= Len(debt_tranches)
           /\ AmortDue(debt_tranches[run.ti], run.year)
           /\ run'.drawn > 0) =>
          LET t  == debt_tranches[run.ti]
              ri == FirstRevolver(debt_tranches)
          IN /\ debt_tranches'[run.ti].balance = t.balance - run'.due
             /\ debt_tranches'[ri].balance
                  = debt_tranches[ri].balance + run'.drawn
             /\ TotalDebt(debt_tranches') = TotalDebt(debt_tranches) - run'.pay
      ]_vars

\* C26 (as claimed): the Exit Summary of a run that returned has Equity Value =
\* EBITDA of the exit year x exit_multiple x (1 - sale_cost_pct) - the sum of
\* the tranche balances at the end of the exit year, and MOIC = Equity Value /
\* initial equity; the IRR cash flows start with -initial equity and end with
\* Equity Value.
C26_ExitSummary_AsClaimed ==
    pc = "done" =>
        LET es      == run.exit_summary[1]
            rec     == run.results[ExitYear(cfg)]
            equity0 == cfg.enterprise_value - Pct(cfg.enterprise_value, cfg.debt_pct)
        IN /\ es.Exit_Year = ExitYear(cfg)
           /\ es.Equity_Value
                = Pct(Pct(rec.EBITDA, cfg.exit_multiple), 100 - cfg.sale_cost_pct)
                    - rec.Total_Debt
           /\ es.MOIC.num * equity0 = es.Equity_Value * es.MOIC.den
           /\ run.irr_cf[1] = -equity0
           /\ run.irr_cf[Len(run.irr_cf)] = es.Equity_Value

\* ---- claims about a second use of the engine (checked under SpecLBOTwice)

\* the second run has just been entered
SecondRunStarted ==
    /\ Len(caller.outs) = 1
    /\ pc = "interest"
    /\ run.year = 1

\* C28: run() does not reset the engine. On the same instance the balances and
\* the amortization schedules at the start of a second run() are those the
\* first run left; a second run on a freshly constructed instance with the
\* same config starts from the tranches __init__ builds and ends as the first
\* run ended.
C28_RunDoesNotReset ==
    /\ (SecondRunStarted /\ ~caller.outs[1].fresh) =>
          /\ debt_tranches = caller.outs[1].debt_tranches
          /\ run = RunLocals0(model, cfg)
    /\ (SecondRunStarted /\ caller.outs[1].fresh) =>
          debt_tranches = BuildTranches(cfg)
    /\ (Len(caller.outs) = 1 /\ caller.outs[1].fresh /\ pc \in {"done", "raised"}) =>
          /\ pc = caller.outs[1].pc
          /\ run = caller.outs[1].run
          /\ debt_tranches = caller.outs[1].debt_tranches

\* a second run of the same number of years on the same instance has returned
\* an Exit Summary other than the first
C28_Witness ==
    /\ pc = "done"
    /\ Len(caller.outs) = 1
    /\ ~caller.outs[1].fresh
    /\ caller.outs[1].pc = "done"
    /\ caller.outs[1].years = cfg.years
    /\ caller.outs[1].debt_tranches # BuildTranches(cfg)
    /\ run.exit_summary # caller.outs[1].run.exit_summary
    /\ C28_RunDoesNotReset


\* ====================================================================
\*  claims about run_sensitivity / run_2d_sensitivity (checked under SpecSens)
\* ====================================================================

\* the scenarios of the current call that have started
Started == {i \in 1..Len(sens.tasks) : sens.tasks[i].st # "queued"}

\* no two scenarios of a call use the same engine, and so the same tranches
OwnEngines == \A i, j \in Started : i # j => sens.tasks[i].eng # sens.tasks[j].eng

\* every scenario returns or raises at most once
RunsOnce == \A m, n \in 1..Len(sens.order) : m # n => sens.order[m] # sens.order[n]

\* row k belongs to the k-th input
InInputOrder(inp, rows) ==
    /\ Len(rows) = Len(Scenarios(inp))
    /\ \A k \in 1..Len(rows) :
          IF inp.fn = "run_sensitivity"
          THEN rows[k].Param = inp.param1 /\ rows[k].Value = inp.values1[k]
          ELSE rows[k].over = Scenarios(inp)[k]

\* what the second call handed back is what the serial call handed back
SameAsSerial ==
    /\ Len(sens.returned) = 2
    /\ sens.returned[2] = sens.returned[1]
    /\ ~sens.returned[2].raised => InInputOrder(sens.inp, sens.returned[2].rows)

====
